---------------------------- MODULE Spec2Model ----------------------------
(***************************************************************************)
(* A model of wikia/wikia.py: the request gateway (_wiki_request) with its *)
(* rate-limit gate, page resolution (page, WikiaPage.__init__, __load),    *)
(* the lazy facets of a resolved page, the continued query and the         *)
(* cache-wrapped lookups.                                                  *)
(*                                                                         *)
(* Text (titles, language codes, paragraph text) is a sequence of          *)
(* character codes, so that str.lower() and "\n".join() are computed and   *)
(* the truth value of a text is its being non-empty, as in Python.         *)
(* An attribute that was never assigned, and None, are sentinels of the    *)
(* attribute's own type (NoTitle, NoId, NoTime, ...).                      *)
(***************************************************************************)
EXTENDS Integers, Sequences, FiniteSets, TLC

VARIABLES
  LANG,                  \* wikia.py:18  global LANG
  RATE_LIMIT,            \* wikia.py:19
  RATE_LIMIT_MIN_WAIT,   \* wikia.py:20  milliseconds, NoWait for None
  RATE_LIMIT_LAST_CALL,  \* wikia.py:21  milliseconds, NoTime for None
  now,                   \* datetime.now(), whole milliseconds
  call,                  \* the call the caller made last: operation, arguments, responses
  ret,                   \* what that call returned or raised
  sent,                  \* the requests that call dispatched, in order
  page,                  \* the WikiaPage object the caller holds (NoPage: none)
  cursor,                \* a drained continued query
  caches,                \* the stored entries of the cache-wrapped functions
  epoch,                 \* per cache-wrapped function and signature: computations since set_lang
  gate                   \* rate-limit bookkeeping of the dispatched calls

vars == <<LANG, RATE_LIMIT, RATE_LIMIT_MIN_WAIT, RATE_LIMIT_LAST_CALL, now,
          call, ret, sent, page, cursor, caches, epoch, gate>>

-----------------------------------------------------------------------------
(* Values *)

NoTitle == <<-1>>   \* title is None / attribute never set
NoId    == -1       \* pageid is None / attribute never set
NoTime  == -1       \* RATE_LIMIT_LAST_CALL is None
NoWait  == -1       \* RATE_LIMIT_MIN_WAIT is None
NoText  == <<-1>>   \* None where a text is expected
\* An attribute that holds a text or a list once it is set, and a value
\* that is None or such a text or list.
Unset == [set |-> FALSE, v |-> <<>>]
Some(v) == [set |-> TRUE, v |-> v]

\* "Ab", "cd": a title with an upper-case letter and a lower-case one.
Titles == { <<65, 98>>, <<99, 100>> }
\* 0 is a page id that Python takes for false.
Ids == { 0, 7 }
SubWikias == { "runescape" }
\* set_lang's arguments: "", "de", "DE".
Languages == { <<>>, <<100, 101>>, <<68, 69>> }

\* str.lower() on the ASCII letters.
Lower(s) == [i \in DOMAIN s |-> IF s[i] \in 65..90 THEN s[i] + 32 ELSE s[i]]

\* The truth value Python gives a text (None is false).
Truthy(s) == s # NoText /\ Len(s) > 0
\* not getattr(self, name, False): the attribute is unset, or empty.
Falsy(attr) == ~attr.set \/ Len(attr.v) = 0


\* int(wait_time.total_seconds()): a timedelta in milliseconds to whole seconds.
MsPerSecond == 1000
\* set_rate_limiting's default min_wait, timedelta(milliseconds=50).
DefaultMinWait == 50

NoExc == [type |-> "none"]
NoJson == [nothing |-> TRUE]

\* A field added to (or overwritten in) a dict.
With(d, k, v) == [x \in DOMAIN d \cup {k} |-> IF x = k THEN v ELSE d[x]]
\* The keys of a JSON object are texts and a page id is a number: str(n) is
\* the key a response files page n under, and n itself is another key.
IntKey(n) == [int |-> n]
StrKey(n) == [str |-> n]
\* dict.update(other)
Update(d, o) == [x \in DOMAIN d \cup DOMAIN o |-> IF x \in DOMAIN o THEN o[x] ELSE d[x]]
\* The dict d cut to the keys K.
Restrict(d, K) == [x \in K |-> d[x]]

-----------------------------------------------------------------------------
(* _wiki_request (wikia.py:549-591) *)

\* What requests.get hands back: a body that decodes as JSON to a dict, or not.
Garbled == [decodes |-> FALSE, json |-> NoJson]
Json(d) == [decodes |-> TRUE, json |-> d]
\* The error envelope, {message, code, details} in this order.
Envelope(code) ==
  Json([exception |-> [message |-> "upstream", code |-> code, details |-> "trace"]])
ErrorCodes == { 408, 500 }

\* API_URL.format(**params): the first template field params does not have.
MissingUrlKey(params) ==
  IF "lang" \notin DOMAIN params THEN "lang"
  ELSE IF "sub_wikia" \notin DOMAIN params THEN "sub_wikia"
  ELSE IF "action" \notin DOMAIN params THEN "action"
  ELSE ""

\* wikia.py:563-570: the seconds slept before dispatching, in milliseconds.
GateSleep(last, t) ==
  IF RATE_LIMIT /\ last # NoTime /\ last + RATE_LIMIT_MIN_WAIT > t
  THEN ((last + RATE_LIMIT_MIN_WAIT - t) \div MsPerSecond) * MsPerSecond
  ELSE 0

\* wikia.py:577-591: what the decoded (or undecodable) response turns into.
\* A body that is not JSON: `raise WikiaError(...).format(...)` asks the
\* exception object for .format, an AttributeError. Code 408: HTTPTimeoutError(query)
\* names a variable the function does not have, a NameError.
Decode(resp) ==
  IF ~resp.decodes THEN [type |-> "AttributeError", attr |-> "format"]
  ELSE IF "exception" \in DOMAIN resp.json
       THEN IF resp.json.exception.code = 408
            THEN [type |-> "NameError", name |-> "query"]
            ELSE [type |-> "WikiaError", code |-> resp.json.exception.code,
                  message |-> resp.json.exception.message,
                  details |-> resp.json.exception.details]
       ELSE NoExc

\* One invocation: params, the response the network gives, the last-call
\* timestamp and the time at entry, the time the network call takes.
\* Yields the exception or the JSON, the request dispatched (if any), the
\* time slept, the time of dispatch, and the new timestamp and time.
_wiki_request(params, resp, last, t, lat) ==
  IF MissingUrlKey(params) # ""
  THEN [exc |-> [type |-> "KeyError", key |-> MissingUrlKey(params)], json |-> NoJson,
        dispatched |-> <<>>, slept |-> 0, at |-> <<>>, last |-> last, t |-> t]
  ELSE LET slept == GateSleep(last, t)
           tSend == t + slept
           tDone == tSend + lat
       IN [exc |-> Decode(resp),
           json |-> IF Decode(resp) = NoExc THEN resp.json ELSE NoJson,
           dispatched |-> << [url |-> [lang |-> params.lang, sub_wikia |-> params.sub_wikia,
                                       action |-> params.action],
                              params |-> With(params, "format", "json")] >>,
           slept |-> slept,
           at |-> <<tSend>>,
           last |-> IF RATE_LIMIT THEN tDone ELSE last,
           t |-> tDone]

-----------------------------------------------------------------------------
(* The facets of a resolved page (wikia.py:363-514) *)

\* "\n".join(texts)
RECURSIVE Join(_)
Join(texts) ==
  IF Len(texts) = 0 THEN <<>>
  ELSE IF Len(texts) = 1 THEN texts[1]
  ELSE texts[1] \o <<10>> \o Join(Tail(texts))

IsParagraph(segment) == segment.type = "paragraph"
\* segment['text'] for segment in section['content'] if segment['type'] == "paragraph"
ParagraphsOf(section) ==
  LET ps == SelectSeq(section.content, IsParagraph) IN [i \in DOMAIN ps |-> ps[i].text]
\* ... for section in sections for segment in section['content'] if ...
RECURSIVE Paragraphs(_)
Paragraphs(sections) ==
  IF Len(sections) = 0 THEN <<>>
  ELSE ParagraphsOf(sections[1]) \o Paragraphs(Tail(sections))
HasImages(section) == Len(section.images) > 0

\* The outcome of a facet access: the exception or the value, the object
\* afterwards, the requests dispatched, the responses read, timestamp and time.
Facet(exc, value, self, reqs, used, last, t) ==
  [exc |-> exc, value |-> value, self |-> self, sent |-> reqs, used |-> used,
   last |-> last, t |-> t]

\* wikia.py:363-388
content(self, resps, last, t, lat) ==
  LET params == [action |-> "Articles/AsSimpleJson?/", id |-> self.pageid,
                 ids |-> self.pageid, sub_wikia |-> self.sub_wikia, lang |-> LANG]
      r1 == _wiki_request(params, resps[1], last, t, lat)
      s1 == [self EXCEPT !._content = Some(Join(Paragraphs(r1.json.sections)))]
      \* the dict _wiki_request gave 'format' to, with the action replaced
      params2 == [With(params, "format", "json") EXCEPT !.action = "Articles/Details?/"]
      r2 == _wiki_request(params2, resps[2], r1.last, r1.t, lat)
      reqs == r1.dispatched \o r2.dispatched
  IN IF ~Falsy(self._content) THEN Facet(NoExc, self._content, self, <<>>, 0, last, t)
     ELSE IF r1.exc # NoExc THEN Facet(r1.exc, Unset, self, r1.dispatched, 1, r1.last, r1.t)
     ELSE IF "sections" \notin DOMAIN r1.json
     THEN Facet([type |-> "KeyError", key |-> "sections"], Unset, self, r1.dispatched, 1, r1.last, r1.t)
     ELSE IF r2.exc # NoExc THEN Facet(r2.exc, Unset, s1, reqs, 2, r2.last, r2.t)
     ELSE IF "items" \notin DOMAIN r2.json
     THEN Facet([type |-> "KeyError", key |-> "items"], Unset, s1, reqs, 2, r2.last, r2.t)
     ELSE IF StrKey(self.pageid) \notin DOMAIN r2.json.items
     THEN Facet([type |-> "KeyError", key |-> StrKey(self.pageid)], Unset, s1, reqs, 2, r2.last, r2.t)
     ELSE Facet(NoExc, s1._content,
                [s1 EXCEPT !._revision_id = r2.json.items[StrKey(self.pageid)].revision.id],
                reqs, 2, r2.last, r2.t)

\* wikia.py:408-429
summary(self, resps, last, t, lat) ==
  LET params == [action |-> "Articles/Details?/", query |-> self.title,
                 sub_wikia |-> self.sub_wikia, lang |-> LANG]
      keyed == IF self.title # NoTitle THEN With(params, "titles", self.title)
               ELSE With(params, "pageids", self.pageid)
      r == _wiki_request(keyed, resps[1], last, t, lat)
  IN IF ~Falsy(self._summary) THEN Facet(NoExc, self._summary, self, <<>>, 0, last, t)
     ELSE IF r.exc # NoExc THEN Facet(r.exc, Unset, self, r.dispatched, 1, r.last, r.t)
     ELSE IF "query" \notin DOMAIN r.json
     THEN Facet([type |-> "KeyError", key |-> "query"], Unset, self, r.dispatched, 1, r.last, r.t)
     \* request['query']['pages'][self.pageid]: the key is the number
     ELSE IF IntKey(self.pageid) \notin DOMAIN r.json.query.pages
     THEN Facet([type |-> "KeyError", key |-> IntKey(self.pageid)], Unset, self, r.dispatched, 1, r.last, r.t)
     ELSE Facet(NoExc, Some(r.json.query.pages[IntKey(self.pageid)].extract),
                [self EXCEPT !._summary = Some(r.json.query.pages[IntKey(self.pageid)].extract)],
                r.dispatched, 1, r.last, r.t)

\* The request of images, sections and section: wikia.py:438-443, 476-481, 502-507.
SimpleJsonParams(self) ==
  [action |-> "Articles/AsSimpleJson?/", id |-> self.pageid,
   sub_wikia |-> self.sub_wikia, lang |-> LANG]

\* wikia.py:431-448
images(self, resps, last, t, lat) ==
  LET r == _wiki_request(SimpleJsonParams(self), resps[1], last, t, lat)
      with == SelectSeq(r.json.sections, HasImages)
      got == Some([i \in DOMAIN with |-> with[i].images[1].src])
  IN IF ~Falsy(self._images) THEN Facet(NoExc, self._images, self, <<>>, 0, last, t)
     ELSE IF r.exc # NoExc THEN Facet(r.exc, Unset, self, r.dispatched, 1, r.last, r.t)
     ELSE IF "sections" \notin DOMAIN r.json
     THEN Facet([type |-> "KeyError", key |-> "sections"], Unset, self, r.dispatched, 1, r.last, r.t)
     ELSE Facet(NoExc, got, [self EXCEPT !._images = got], r.dispatched, 1, r.last, r.t)

\* wikia.py:450-467
related_pages(self, resps, last, t, lat) ==
  LET params == [action |-> "RelatedPages/List?/", ids |-> self.pageid, limit |-> 10,
                 sub_wikia |-> self.sub_wikia, lang |-> LANG]
      r == _wiki_request(params, resps[1], last, t, lat)
      urls == r.json.items[StrKey(self.pageid)]
      got == Some([i \in DOMAIN urls |-> r.json.basepath \o urls[i].url])
  IN IF ~Falsy(self._related_pages) THEN Facet(NoExc, self._related_pages, self, <<>>, 0, last, t)
     ELSE IF r.exc # NoExc THEN Facet(r.exc, Unset, self, r.dispatched, 1, r.last, r.t)
     ELSE IF "basepath" \notin DOMAIN r.json
     THEN Facet([type |-> "KeyError", key |-> "basepath"], Unset, self, r.dispatched, 1, r.last, r.t)
     ELSE IF StrKey(self.pageid) \notin DOMAIN r.json.items
     THEN Facet([type |-> "KeyError", key |-> StrKey(self.pageid)], Unset, self, r.dispatched, 1, r.last, r.t)
     ELSE Facet(NoExc, got, [self EXCEPT !._related_pages = got], r.dispatched, 1, r.last, r.t)

\* wikia.py:469-486
sections(self, resps, last, t, lat) ==
  LET r == _wiki_request(SimpleJsonParams(self), resps[1], last, t, lat)
      got == Some([i \in DOMAIN r.json.sections |-> r.json.sections[i].title])
  IN IF ~Falsy(self._sections) THEN Facet(NoExc, self._sections, self, <<>>, 0, last, t)
     ELSE IF r.exc # NoExc THEN Facet(r.exc, Unset, self, r.dispatched, 1, r.last, r.t)
     ELSE IF "sections" \notin DOMAIN r.json
     THEN Facet([type |-> "KeyError", key |-> "sections"], Unset, self, r.dispatched, 1, r.last, r.t)
     ELSE Facet(NoExc, got, [self EXCEPT !._sections = got], r.dispatched, 1, r.last, r.t)

\* wikia.py:511, `if section == section_title`: section is the dict of the
\* response and section_title a text, and a dict equals no text.
DictEqualsText(section, section_title) == FALSE

\* wikia.py:488-514
section(self, section_title, resps, last, t, lat) ==
  LET known == sections(self, resps, last, t, lat)
      rest == SubSeq(resps, known.used + 1, Len(resps))
      r == _wiki_request(SimpleJsonParams(known.self), rest[1], known.last, known.t, lat)
      reqs == known.sent \o r.dispatched
      used == known.used + 1
      Named(sec) == DictEqualsText(sec, section_title)
  IN IF known.exc # NoExc THEN known
     ELSE IF \A i \in DOMAIN known.value.v : known.value.v[i] # section_title
     THEN Facet(NoExc, Unset, known.self, known.sent, known.used, known.last, known.t)
     ELSE IF r.exc # NoExc THEN Facet(r.exc, Unset, known.self, reqs, used, r.last, r.t)
     ELSE IF "sections" \notin DOMAIN r.json
     THEN Facet([type |-> "KeyError", key |-> "sections"], Unset, known.self, reqs, used, r.last, r.t)
     ELSE Facet(NoExc, Some(Join(Paragraphs(SelectSeq(r.json.sections, Named)))),
                known.self, reqs, used, r.last, r.t)

-----------------------------------------------------------------------------
(* Page resolution: page (169-187), WikiaPage.__init__ (197-214),          *)
(* WikiaPage.__load (229-310)                                              *)

\* STANDARD_URL.format(lang=, sub_wikia=, page=): the template's three fields.
StandardUrl(lang, sub_wikia, title) == [lang |-> lang, sub_wikia |-> sub_wikia, page |-> title]
NoUrl == [lang |-> <<>>, sub_wikia |-> "", page |-> NoTitle]

\* object.__new__: no attribute is set yet.
NewPage ==
  [sub_wikia |-> "", title |-> NoTitle, original_title |-> NoTitle, pageid |-> NoId,
   url |-> NoUrl, _content |-> Unset, _revision_id |-> NoId, _summary |-> Unset,
   _images |-> Unset, _related_pages |-> Unset, _sections |-> Unset]
NoPage == [NewPage EXCEPT !.sub_wikia = "(no object)"]

\* An <li> of the disambiguation markup: whether its joined class names
\* contain 'tocsection', and the text of its first anchor (NoText: no anchor).
Li(toc, a) == [tocsection |-> toc, a |-> a]
NotToc(li) == ~li.tocsection
HasAnchor(li) == li.a # NoText
\* wikia.py:300-302
MayReferTo(lis) ==
  LET kept == SelectSeq(SelectSeq(lis, NotToc), HasAnchor)
  IN [i \in DOMAIN kept |-> kept[i].a]

\* The result of a step of resolution: the exception (NoExc: none), the
\* object as it is then, the requests dispatched, how many responses were
\* read, and the rate-limit timestamp and the time afterwards.
Step(exc, self, reqs, used, last, t) ==
  [exc |-> exc, self |-> self, sent |-> reqs, used |-> used, last |-> last, t |-> t]

RECURSIVE WikiaPage_init(_, _, _, _, _, _, _, _, _, _, _)

\* A redirect branch that looks the target up in the same sub-wiki, one hop.
LoadRedirectLookingUp(self, redirect, preload, query, r, rest, lat) ==
  IF ~redirect \/ Len(query.redirects) = 0
  THEN Step([type |-> "RedirectError", title |-> self.title], self, r.dispatched, 1, r.last, r.t)
  ELSE LET again == WikiaPage_init(self, self.sub_wikia, query.redirects[1].to, NoId,
                                   FALSE, preload, <<>>, rest, r.last, r.t, lat)
       IN Step(again.exc, again.self, r.dispatched \o again.sent, 1 + again.used,
               again.last, again.t)

\* wikia.py:265-284, the item carries 'redirects'. Line 281 calls
\* self.__init__(redirects['to'], redirect=redirect, preload=preload): the
\* target is the first positional argument, which is sub_wikia, and title
\* and pageid keep their defaults.
LoadRedirect(self, redirect, preload, query, r, rest, lat) ==
  IF ~redirect
  THEN \* getattr(self, 'title', page['title']) evaluates its default first
       IF "title" \notin DOMAIN query
       THEN Step([type |-> "KeyError", key |-> "title"], self, r.dispatched, 1, r.last, r.t)
       ELSE Step([type |-> "RedirectError",
                  title |-> IF self.title # NoTitle THEN self.title ELSE query.title],
                 self, r.dispatched, 1, r.last, r.t)
  ELSE IF Len(query.redirects) = 0
  THEN Step([type |-> "IndexError"], self, r.dispatched, 1, r.last, r.t)
  ELSE IF self.title = NoTitle
  THEN \* normalized['from'] == self.title, or from_title = self.title
       IF "normalized" \in DOMAIN query /\ Len(query.normalized) = 0
       THEN Step([type |-> "IndexError"], self, r.dispatched, 1, r.last, r.t)
       ELSE Step([type |-> "AttributeError", attr |-> "title"], self, r.dispatched, 1, r.last, r.t)
  ELSE IF "normalized" \in DOMAIN query /\ Len(query.normalized) = 0
  THEN Step([type |-> "IndexError"], self, r.dispatched, 1, r.last, r.t)
  ELSE IF "normalized" \in DOMAIN query /\ query.normalized[1].from # self.title
  THEN Step([type |-> "AssertionError"], self, r.dispatched, 1, r.last, r.t)
  ELSE LET from_title == IF "normalized" \in DOMAIN query
                         THEN query.normalized[1].to ELSE self.title
       IN IF query.redirects[1].from # from_title
          THEN Step([type |-> "AssertionError"], self, r.dispatched, 1, r.last, r.t)
          ELSE LET again == WikiaPage_init(self, query.redirects[1].to, NoTitle, NoId,
                                           redirect, preload, <<>>, rest, r.last, r.t, lat)
               IN Step(again.exc, again.self, r.dispatched \o again.sent, 1 + again.used,
                       again.last, again.t)

\* wikia.py:286-304, the item carries 'pageprops'.
LoadDisambiguation(self, query, r, markup, lat) ==
  LET base == [lang |-> LANG]
      params == IF self.pageid # NoId THEN With(base, "pageids", self.pageid)
                ELSE With(base, "titles", self.title)
      r2 == _wiki_request(params, markup, r.last, r.t, lat)
      reqs == r.dispatched \o r2.dispatched
      used == 1 + Len(r2.dispatched)
  IN IF r2.exc # NoExc THEN Step(r2.exc, self, reqs, used, r2.last, r2.t)
     ELSE IF "query" \notin DOMAIN r2.json
     THEN Step([type |-> "KeyError", key |-> "query"], self, reqs, used, r2.last, r2.t)
     ELSE IF "title" \notin DOMAIN query
     THEN Step([type |-> "KeyError", key |-> "title"], self, reqs, used, r2.last, r2.t)
     ELSE Step([type |-> "DisambiguationError",
                title |-> IF self.title # NoTitle THEN self.title ELSE query.title,
                options |-> MayReferTo(r2.json.query)],
               self, reqs, used, r2.last, r2.t)

\* The resolved branch storing the title as the API spelled it.
LoadResolvedAsSpelled(self, query, params, r) ==
  IF "title" \notin DOMAIN query
  THEN Step([type |-> "KeyError", key |-> "title"], [self EXCEPT !.pageid = query.id],
            r.dispatched, 1, r.last, r.t)
  ELSE Step(NoExc,
            [self EXCEPT !.pageid = query.id,
                         !.title = query.title,
                         !.url = StandardUrl(params.lang, self.sub_wikia, query.title)],
            r.dispatched, 1, r.last, r.t)

\* wikia.py:306-310
LoadResolved(self, query, params, r) ==
  IF "title" \notin DOMAIN query
  THEN Step([type |-> "KeyError", key |-> "title"], [self EXCEPT !.pageid = query.id],
            r.dispatched, 1, r.last, r.t)
  ELSE Step(NoExc,
            [self EXCEPT !.pageid = query.id,
                         !.title = Lower(query.title),
                         !.url = StandardUrl(params.lang, self.sub_wikia, Lower(query.title))],
            r.dispatched, 1, r.last, r.t)

\* The network's next response; with none left to give, no answer.
NextResponse(resps) == IF Len(resps) > 0 THEN resps[1] ELSE Garbled

\* wikia.py:229-310. resps: the responses the network will give, in order.
Load(self, redirect, preload, resps, last, t, lat) ==
  LET byTitle == self.pageid = NoId \/ self.pageid = 0   \* not getattr(self, 'pageid', None)
      base == [action |-> "Articles/Details?/", sub_wikia |-> self.sub_wikia, lang |-> LANG]
      params == IF byTitle THEN With(base, "titles", self.title)
                ELSE With(base, "ids", self.pageid)
      r == _wiki_request(params, NextResponse(resps), last, t, lat)
      query == r.json.items[1]
  IN IF byTitle /\ self.title = NoTitle
     THEN Step([type |-> "AttributeError", attr |-> "title"], self, <<>>, 0, last, t)
     ELSE IF r.exc # NoExc THEN Step(r.exc, self, r.dispatched, 1, r.last, r.t)
     ELSE IF "items" \notin DOMAIN r.json
     THEN Step([type |-> "KeyError", key |-> "items"], self, r.dispatched, 1, r.last, r.t)
     ELSE IF Len(r.json.items) = 0
     THEN Step([type |-> "IndexError"], self, r.dispatched, 1, r.last, r.t)
     ELSE IF "id" \notin DOMAIN query
     THEN Step([type |-> "KeyError", key |-> "id"], self, r.dispatched, 1, r.last, r.t)
     ELSE IF "missing" \in DOMAIN query
     THEN IF self.title # NoTitle
          THEN Step([type |-> "PageError", title |-> self.title], self, r.dispatched, 1, r.last, r.t)
          ELSE Step([type |-> "PageError", pageid |-> self.pageid], self, r.dispatched, 1, r.last, r.t)
     ELSE IF "redirects" \in DOMAIN query
     THEN LoadRedirect(self, redirect, preload, query, r, Tail(resps), lat)
     ELSE IF "pageprops" \in DOMAIN query
     THEN LoadDisambiguation(self, query, r, resps[2], lat)
     ELSE LoadResolved(self, query, params, r)


\* wikia.py:212-214: getattr(self, prop) for prop in ('content', 'summary',
\* 'images', 'references', 'links', 'sections'), outside the try of line
\* 207; the class has no attribute 'references'. l is what __load left.
PreloadImages(l, c, s, resps, lat) ==
  CHOOSE v \in
    { IF i.exc # NoExc
      THEN Step(i.exc, i.self, l.sent \o c.sent \o s.sent \o i.sent,
                l.used + c.used + s.used + i.used, i.last, i.t)
      ELSE Step([type |-> "AttributeError", attr |-> "references"], i.self,
                l.sent \o c.sent \o s.sent \o i.sent,
                l.used + c.used + s.used + i.used, i.last, i.t) :
      i \in { images(s.self, SubSeq(resps, c.used + s.used + 1, Len(resps)),
                     s.last, s.t, lat) } } : TRUE
PreloadSummary(l, c, resps, lat) ==
  CHOOSE v \in
    { IF s.exc # NoExc
      THEN Step(s.exc, s.self, l.sent \o c.sent \o s.sent, l.used + c.used + s.used,
                s.last, s.t)
      ELSE PreloadImages(l, c, s, resps, lat) :
      s \in { summary(c.self, SubSeq(resps, c.used + 1, Len(resps)), c.last, c.t, lat) } } : TRUE
Preload(l, resps, lat) ==
  CHOOSE v \in
    { IF c.exc # NoExc
      THEN Step(c.exc, c.self, l.sent \o c.sent, l.used + c.used, c.last, c.t)
      ELSE PreloadSummary(l, c, resps, lat) :
      c \in { content(l.self, resps, l.last, l.t, lat) } } : TRUE

\* wikia.py:198-214, a title or a pageid given: the attributes, then __load
\* with its AttributeError turned into "Could not locate page", then the
\* preloading.
Construct(self, sub_wikia, title, pageid, redirect, preload, original_title, resps, last, t, lat) ==
  LET named == IF title # NoTitle
               THEN [self EXCEPT !.title = title,
                                 !.original_title = IF Truthy(original_title)
                                                    THEN original_title ELSE title]
               ELSE [self EXCEPT !.pageid = pageid]
      l == Load([named EXCEPT !.sub_wikia = sub_wikia], redirect, preload,
                resps, last, t, lat)
  IN IF l.exc.type = "AttributeError"
     THEN \* "Could not locate page {title or pageid} in subwikia {sub_wikia}"
          [l EXCEPT !.exc = IF title # NoTitle /\ Truthy(title)
                            THEN [type |-> "WikiaError", message |-> "Could not locate page",
                                  title |-> title, sub_wikia |-> sub_wikia]
                            ELSE [type |-> "WikiaError", message |-> "Could not locate page",
                                  pageid |-> pageid, sub_wikia |-> sub_wikia]]
     ELSE IF l.exc = NoExc /\ preload
     THEN CHOOSE v \in { Preload(loaded, SubSeq(resps, loaded.used + 1, Len(resps)), lat) :
                           loaded \in {l} } : TRUE
     ELSE l

\* WikiaPage.__init__ without the check of lines 203-204.
WikiaPage_initUnchecked(self, sub_wikia, title, pageid, redirect, preload, original_title, resps, last, t, lat) ==
  Construct(self, sub_wikia, title, pageid, redirect, preload, original_title, resps, last, t, lat)

\* wikia.py:197-214
WikiaPage_init(self, sub_wikia, title, pageid, redirect, preload, original_title, resps, last, t, lat) ==
  IF title = NoTitle /\ pageid = NoId
  THEN Step([type |-> "ValueError"], self, <<>>, 0, last, t)
  ELSE Construct(self, sub_wikia, title, pageid, redirect, preload, original_title,
                 resps, last, t, lat)

\* wikia.py:169-187
pageFn(sub_wikia, title, pageid, redirect, preload, resps, last, t, lat) ==
  IF title # NoTitle
  THEN WikiaPage_init(NewPage, sub_wikia, title, NoId, redirect, preload, <<>>, resps, last, t, lat)
  ELSE IF pageid # NoId
  THEN WikiaPage_init(NewPage, sub_wikia, NoTitle, pageid, TRUE, preload, <<>>, resps, last, t, lat)
  ELSE Step([type |-> "ValueError"], NewPage, <<>>, 0, last, t)

-----------------------------------------------------------------------------
(* The responses the API can give to a details lookup *)

RedirectLists ==
  {<<>>} \cup { <<[from |-> f, to |-> g]>> : f \in Titles, g \in Titles }
NormalizedLists ==
  {<<>>} \cup { <<[from |-> p[1], to |-> p[2]]>> :
                p \in { q \in Titles \X Titles : q[1] # q[2] } }
\* The ids the API gives its articles.
ItemIds == Ids \ {0}
FullItems ==
  [id : ItemIds, title : Titles, missing : {""}, redirects : RedirectLists,
   normalized : NormalizedLists, pageprops : {[disambiguation |-> ""]}]
ItemKeys == {"id", "title", "missing", "redirects", "normalized", "pageprops"}
\* Every item: each key present or absent.
DetailsItems == { Restrict(f, K) : f \in FullItems, K \in SUBSET ItemKeys }

DetailsResponses ==
  {Garbled} \cup { Envelope(c) : c \in ErrorCodes }
  \cup { Json([batchcomplete |-> ""]), Json([items |-> <<>>]) }
  \cup { Json([items |-> <<i>>]) : i \in DetailsItems }

\* The markup of a disambiguation page, by its <li> elements.
Markups ==
  { <<>>,
    << Li(TRUE, <<116>>), Li(FALSE, <<65, 98>>), Li(FALSE, NoText), Li(FALSE, <<99, 100>>) >> }
MarkupResponses == { Json([query |-> m]) : m \in Markups }

\* What the network would give next: the markup after an item with
\* 'pageprops', the target's details after one with 'redirects' (a plain
\* article, or a redirect back to where the first came from).
NoFollowUp == Garbled
FollowUps(d) ==
  IF d.decodes /\ "items" \in DOMAIN d.json /\ Len(d.json.items) > 0
  THEN IF "redirects" \in DOMAIN d.json.items[1]
       THEN { Json([items |-> << [id |-> i, title |-> t] >>]) : i \in ItemIds, t \in Titles }
            \cup UNION { { Json([items |-> << [id |-> i, title |-> rd.to,
                                              redirects |-> << [from |-> rd.to, to |-> rd.from] >>] >>]) :
                            i \in ItemIds } :
                          rd \in { d.json.items[1].redirects[k] :
                                   k \in DOMAIN d.json.items[1].redirects } }
       ELSE IF "pageprops" \in DOMAIN d.json.items[1] THEN MarkupResponses
       ELSE {NoFollowUp}
  ELSE {NoFollowUp}
\* The responses to a resolution's requests, in order.
Exchanges == UNION { { <<d, f>> : f \in FollowUps(d) } : d \in DetailsResponses }

-----------------------------------------------------------------------------
(* The configuration setters *)

NoCall == [op |-> "idle"]
NoRet == [raised |-> FALSE, exc |-> NoExc, value |-> "nothing"]
EmptyCaches == [search |-> {}, summary |-> {}, languages |-> {}]
\* What the callers have been handed: per function, the calls that returned
\* since the last set_lang, and the signatures that returned before it.
NoCalls ==
  [search |-> {}, summary |-> {}, languages |-> {},
   past |-> [search |-> {}, summary |-> {}, languages |-> {}]]
NoCursor == [state |-> "none"]
NoGate == [at |-> NoTime, prev |-> NoTime, slept |-> 0]

\* wikia.py:48's min_wait arguments: the default 50 ms, and a second and a half.
LongMinWait == 1500
MinWaits == { DefaultMinWait, LongMinWait }

\* wikia.py:25-33. language is a text or None (NoText); both '' and None are false.
LangPrefix(language) ==
  IF Truthy(language) THEN Lower(language) \o <<46>> ELSE <<>>
\* A set_lang whose loop would visit search only.
ClearedOnlySearch == {"search"}
ClearedOnlySummary == {"summary"}
\* for cached_func in (search, summary): cached_func.clear_cache()
ClearedBySetLang == {"search", "summary"}
set_lang(language) ==
  /\ LANG' = LangPrefix(language)
  /\ caches' = [f \in DOMAIN caches |-> IF f \in ClearedBySetLang THEN {} ELSE caches[f]]

\* A set_rate_limiting that leaves the timestamp of the last call in place.
set_rate_limitingKeepsLastCall(rate_limit, min_wait) ==
  /\ RATE_LIMIT' = rate_limit
  /\ RATE_LIMIT_MIN_WAIT' = IF ~rate_limit THEN NoWait ELSE min_wait
  /\ UNCHANGED RATE_LIMIT_LAST_CALL

\* wikia.py:48-77
set_rate_limiting(rate_limit, min_wait) ==
  /\ RATE_LIMIT' = rate_limit
  /\ RATE_LIMIT_MIN_WAIT' = IF ~rate_limit THEN NoWait ELSE min_wait
  /\ RATE_LIMIT_LAST_CALL' = NoTime

-----------------------------------------------------------------------------
(* Spec: a caller resolving pages, one call at a time *)

Idle == call = NoCall

SetLang(language) ==
  /\ Idle
  /\ set_lang(language)
  /\ epoch' = [NoCalls EXCEPT !.past =
                 [f \in DOMAIN epoch.past |-> epoch.past[f] \cup { e.sig : e \in epoch[f] }]]
  /\ UNCHANGED <<RATE_LIMIT, RATE_LIMIT_MIN_WAIT, RATE_LIMIT_LAST_CALL, now,
                 call, ret, sent, page, cursor, gate>>

SetRateLimiting(rate_limit, min_wait) ==
  /\ Idle
  /\ set_rate_limiting(rate_limit, min_wait)
  /\ gate' = NoGate
  /\ UNCHANGED <<LANG, now, call, ret, sent, page, cursor, caches, epoch>>

\* The caller takes the outcome of a resolution: the page or the exception.
Resolved(op, args, resps, r) ==
  /\ call' = [op |-> op, args |-> args, resps |-> resps, used |-> r.used]
  /\ ret' = [raised |-> r.exc # NoExc, exc |-> r.exc,
             value |-> IF r.exc = NoExc THEN "page" ELSE "nothing"]
  /\ page' = IF r.exc = NoExc THEN r.self ELSE NoPage
  /\ sent' = r.sent
  /\ RATE_LIMIT_LAST_CALL' = r.last
  /\ now' = r.t
  /\ UNCHANGED <<LANG, RATE_LIMIT, RATE_LIMIT_MIN_WAIT, cursor, caches, epoch, gate>>

PageArgs ==
  [sub_wikia : SubWikias, title : Titles \cup {NoTitle}, pageid : Ids \cup {NoId},
   redirect : BOOLEAN, preload : {FALSE}]

\* page(sub_wikia, title, pageid, redirect, preload)
Page(a, resps) ==
  Resolved("page", a, resps,
              pageFn(a.sub_wikia, a.title, a.pageid, a.redirect, a.preload,
                     resps, RATE_LIMIT_LAST_CALL, now, 0))

\* WikiaPage(sub_wikia, title, pageid, redirect, preload)
NewWikiaPage(a, resps) ==
  Resolved("WikiaPage", a, resps,
              WikiaPage_init(NewPage, a.sub_wikia, a.title, a.pageid, a.redirect, a.preload,
                             <<>>, resps, RATE_LIMIT_LAST_CALL, now, 0))

\* The caller is done with the outcome.
Forget ==
  /\ ~Idle
  /\ call' = NoCall /\ ret' = NoRet /\ sent' = <<>> /\ page' = NoPage
  /\ UNCHANGED <<LANG, RATE_LIMIT, RATE_LIMIT_MIN_WAIT, RATE_LIMIT_LAST_CALL, now,
                 cursor, caches, epoch, gate>>

Init ==
  /\ LANG = <<>>
  /\ RATE_LIMIT = FALSE
  /\ RATE_LIMIT_MIN_WAIT = NoWait
  /\ RATE_LIMIT_LAST_CALL = NoTime
  /\ now = 0
  /\ call = NoCall /\ ret = NoRet /\ sent = <<>> /\ page = NoPage
  /\ cursor = NoCursor
  /\ caches = EmptyCaches
  /\ epoch = NoCalls
  /\ gate = NoGate

Next ==
  \/ \E l \in Languages : SetLang(l)
  \/ \E b \in BOOLEAN : SetRateLimiting(b, DefaultMinWait)
  \/ Idle /\ \E a \in PageArgs, x \in Exchanges : Page(a, x)
  \/ Idle /\ \E a \in PageArgs, x \in Exchanges : NewWikiaPage(a, x)
  \/ Forget

Spec == Init /\ [][Next]_vars

-----------------------------------------------------------------------------
(* Claims about page resolution *)

IsResolution == call.op \in {"page", "WikiaPage"}
\* The details lookup was dispatched and its response carries an item.
GotItem ==
  /\ IsResolution /\ Len(sent) >= 1
  /\ call.resps[1].decodes
  /\ "exception" \notin DOMAIN call.resps[1].json
  /\ "items" \in DOMAIN call.resps[1].json
  /\ Len(call.resps[1].json.items) > 0
Item == call.resps[1].json.items[1]
ByTitle == call.args.title # NoTitle
ById == call.args.title = NoTitle /\ call.args.pageid # NoId

\* C1: a details lookup that returns an item flagged 'missing' makes the
\* resolution fail with PageError identifying exactly the requested title
\* (the requested id, for a lookup by id); no page is returned and no further
\* request is issued.
C1_MissingIsPageError ==
  (GotItem /\ "missing" \in DOMAIN Item) =>
    /\ ret.raised /\ page = NoPage /\ Len(sent) = 1
    /\ ByTitle => ret.exc = [type |-> "PageError", title |-> call.args.title]
    /\ ById => ret.exc = [type |-> "PageError", pageid |-> call.args.pageid]

\* The well-formed part of C1's case: the missing item also carries its id.
C1_MissingWithIdIsPageError ==
  (GotItem /\ "missing" \in DOMAIN Item /\ "id" \in DOMAIN Item) =>
    /\ ret.raised /\ page = NoPage /\ Len(sent) = 1
    /\ ByTitle => ret.exc = [type |-> "PageError", title |-> call.args.title]
    /\ ById => ret.exc = [type |-> "PageError", pageid |-> call.args.pageid]


\* The item is a redirect descriptor the resolver accepts: the hop (through
\* the normalized title, if the API normalized) starts at the requested title.
ConsistentRedirect ==
  /\ GotItem /\ ByTitle
  /\ {"id", "title", "redirects"} \subseteq DOMAIN Item /\ "missing" \notin DOMAIN Item
  /\ Len(Item.redirects) > 0
  /\ IF "normalized" \in DOMAIN Item
     THEN /\ Len(Item.normalized) > 0
          /\ Item.normalized[1].from = call.args.title
          /\ Item.redirects[1].from = Item.normalized[1].to
     ELSE Item.redirects[1].from = call.args.title
Target == call.resps[2].json.items[1]

\* C2: with redirect-following enabled, a title whose details carry a
\* redirect descriptor (acyclic: the target is another title, and is an
\* ordinary page) is resolved again with the target title in the same
\* sub-wiki, the original title carried forward, and ends in a page whose
\* title is the target's canonical (lower-cased) title, not the original one.
C2_RedirectIsFollowed ==
  (ConsistentRedirect /\ call.args.redirect
     /\ Item.redirects[1].to # Item.redirects[1].from
     /\ Item.redirects[1].to # call.args.title
     /\ Lower(Target.title) # call.args.title) =>
    /\ ~ret.raised /\ page # NoPage
    /\ Len(sent) = 2
    /\ sent[2].params.titles = Item.redirects[1].to
    /\ sent[2].url.sub_wikia = call.args.sub_wikia
    /\ page.original_title = call.args.title
    /\ page.title = Lower(Target.title)
    /\ page.title # call.args.title

\* C3: page(redirect=False), by title or by id, on details that carry a
\* redirect descriptor: RedirectError naming the requested title, and no
\* second lookup.
C3_RedirectNotFollowed ==
  (GotItem /\ call.op = "page" /\ ~call.args.redirect
     /\ {"id", "title", "redirects"} \subseteq DOMAIN Item /\ "missing" \notin DOMAIN Item
     /\ Len(Item.redirects) > 0) =>
    /\ ret.raised /\ page = NoPage
    /\ ret.exc.type = "RedirectError"
    /\ ByTitle => ret.exc.title = call.args.title
    /\ Len(sent) = 1

\* C4: details that carry page properties: a second request for the markup
\* goes through _wiki_request, and the failure is DisambiguationError with
\* the original title and, in document order, the anchor texts of the list
\* items that are not table-of-contents items.
C4_DisambiguationLists ==
  (GotItem /\ ByTitle
     /\ {"id", "title", "pageprops"} \subseteq DOMAIN Item
     /\ "missing" \notin DOMAIN Item /\ "redirects" \notin DOMAIN Item) =>
    /\ Len(sent) = 2
    /\ ret.exc = [type |-> "DisambiguationError", title |-> call.args.title,
                  options |-> MayReferTo(call.resps[2].json.query)]

Neither(a) == a.title = NoTitle /\ a.pageid = NoId

\* C10: page() or WikiaPage() with neither a title nor a page id fails at
\* once with ValueError: no request is dispatched, no page is returned and
\* the rate-limit state is as it was.
C10_NeitherFailsAtOnce ==
  [][ (Idle /\ call'.op \in {"page", "WikiaPage"} /\ Neither(call'.args)) =>
        /\ ret'.exc = [type |-> "ValueError"]
        /\ sent' = <<>> /\ page' = NoPage
        /\ UNCHANGED <<RATE_LIMIT, RATE_LIMIT_MIN_WAIT, RATE_LIMIT_LAST_CALL>> ]_vars

\* The constructor was called with neither, under rate limiting.
C10_Witness ==
  /\ call.op = "WikiaPage" /\ Neither(call.args)
  /\ ret.raised /\ RATE_LIMIT

-----------------------------------------------------------------------------
(* SpecRate: one thread calling _wiki_request, time passing in between *)

\* The clock's last value.
MaxTime == 1100
\* Time that passes between two calls, and the time a network call takes.
TickSteps == { 500 }
Latencies == { 0, 20 }

\* Parameters as the module's callers build them: search (92-98), random
\* (121-123) and languages (527-530); the last two carry no 'sub_wikia'
\* or 'action' (languages no 'lang' either).
RequestParams ==
  { [action |-> "Search/List?/", sub_wikia |-> "runescape", lang |-> <<>>,
     limit |-> 10, query |-> <<65, 98>>],
    [lang |-> <<>>],
    [meta |-> "siteinfo", siprop |-> "languages"] }
RequestResponses ==
  {Garbled} \cup { Envelope(c) : c \in ErrorCodes } \cup { Json([items |-> <<>>]) }

Tick(d) ==
  /\ now + d <= MaxTime
  /\ now' = now + d
  /\ UNCHANGED <<LANG, RATE_LIMIT, RATE_LIMIT_MIN_WAIT, RATE_LIMIT_LAST_CALL,
                 call, ret, sent, page, cursor, caches, epoch, gate>>

\* gate: when the latest call and the one before it were dispatched (since
\* the last set_rate_limiting), and how long the latest call slept.
Gated(r) ==
  IF r.dispatched = <<>> THEN [gate EXCEPT !.slept = r.slept]
  ELSE [at |-> r.at[1], prev |-> gate.at, slept |-> r.slept]

\* A direct call of _wiki_request(params).
Request(params, resp, lat) ==
  LET r == _wiki_request(params, resp, RATE_LIMIT_LAST_CALL, now, lat)
  IN /\ r.t <= MaxTime
     /\ call' = [op |-> "_wiki_request", args |-> params, resps |-> <<resp>>,
                 used |-> Len(r.dispatched)]
     /\ ret' = [raised |-> r.exc # NoExc, exc |-> r.exc, value |-> "json", json |-> r.json]
     /\ sent' = r.dispatched
     /\ gate' = Gated(r)
     /\ RATE_LIMIT_LAST_CALL' = r.last
     /\ now' = r.t
     /\ UNCHANGED <<LANG, RATE_LIMIT, RATE_LIMIT_MIN_WAIT, page, cursor, caches, epoch>>

RateSetRateLimiting(rate_limit, min_wait) ==
  /\ set_rate_limiting(rate_limit, min_wait)
  /\ gate' = NoGate
  /\ UNCHANGED <<LANG, now, call, ret, sent, page, cursor, caches, epoch>>

NextRate ==
  \/ \E b \in BOOLEAN, w \in MinWaits : RateSetRateLimiting(b, w)
  \/ \E d \in TickSteps : Tick(d)
  \/ \E p \in RequestParams, x \in RequestResponses, l \in Latencies : Request(p, x, l)

SpecRate == Init /\ [][NextRate]_vars

\* C7: with rate limiting enabled and a minimum interval W, two consecutive
\* network calls dispatched by _wiki_request are at least W apart; with rate
\* limiting disabled _wiki_request does not sleep before dispatching.
C7_CallsAreSpaced ==
  /\ (RATE_LIMIT /\ gate.prev # NoTime) => gate.at - gate.prev >= RATE_LIMIT_MIN_WAIT
  /\ ~RATE_LIMIT => gate.slept = 0

-----------------------------------------------------------------------------
(* SpecFacets: a caller reading the facets of a page it resolved *)

\* The longest list of sections a response carries.
MaxSections == 2

SeqsUpTo(S, n) == UNION { [1..k -> S] : k \in 0..n }

Paragraph(text) == [type |-> "paragraph", text |-> text]
\* Sections "A" and "B" as Articles/AsSimpleJson gives them: with one
\* paragraph "p"; with a list, a paragraph "q" and an image; "A" with nothing.
SectionFixtures ==
  { [title |-> <<65>>, content |-> << Paragraph(<<112>>) >>, images |-> <<>>],
    [title |-> <<66>>,
     content |-> << [type |-> "list", text |-> <<120>>], Paragraph(<<113>>) >>,
     images |-> << [src |-> <<105>>] >>],
    [title |-> <<65>>, content |-> <<>>, images |-> <<>>] }
SimpleJsonOf(fixtures) ==
  { Json([sections |-> ss]) : ss \in SeqsUpTo(fixtures, MaxSections) }
SimpleJsonResponses == SimpleJsonOf(SectionFixtures) \cup {Garbled}

RevisionResponses ==
  { Json([items |-> [k \in {StrKey(i)} |-> [revision |-> [id |-> 31]]]]) : i \in ItemIds }
SummaryResponses ==
  { Json([query |-> [pages |-> [k \in {StrKey(i) : i \in ItemIds} |-> [extract |-> e]]]]) :
      e \in {<<>>, <<115>>} }
  \cup { Json([items |-> <<>>]) }
RelatedResponses ==
  { Json([basepath |-> <<104>>, items |-> [k \in {StrKey(i) : i \in ItemIds} |-> us]]) :
      us \in { <<>>, << [url |-> <<47>>] >> } }

\* The pages a caller can hold of the article "Ab": what page() returns for
\* its title and for its id.
ResolvedPages ==
  LET results == { pageFn(a.sub_wikia, a.title, a.pageid, a.redirect, a.preload,
                          x, NoTime, 0, 0) : a \in PageArgs, x \in Exchanges }
  IN { r.self : r \in { q \in results : q.exc = NoExc /\ q.self.title = Lower(<<65, 98>>) } }

InitFacets ==
  /\ LANG = <<>>
  /\ RATE_LIMIT = FALSE
  /\ RATE_LIMIT_MIN_WAIT = NoWait
  /\ RATE_LIMIT_LAST_CALL = NoTime
  /\ now = 0
  /\ call = NoCall /\ ret = NoRet /\ sent = <<>>
  /\ page \in ResolvedPages
  /\ cursor = NoCursor
  /\ caches = EmptyCaches
  /\ epoch = NoCalls
  /\ gate = NoGate

\* The caller takes the outcome of a facet access.
Accessed(op, args, resps, f) ==
  /\ call' = [op |-> op, args |-> args, resps |-> resps, used |-> f.used, before |-> page]
  /\ ret' = [raised |-> f.exc # NoExc, exc |-> f.exc, value |-> "facet", got |-> f.value]
  /\ page' = f.self
  /\ sent' = f.sent
  /\ RATE_LIMIT_LAST_CALL' = f.last
  /\ now' = f.t
  /\ UNCHANGED <<LANG, RATE_LIMIT, RATE_LIMIT_MIN_WAIT, cursor, caches, epoch, gate>>

Content(resps) ==
  Accessed("content", <<>>, resps, content(page, resps, RATE_LIMIT_LAST_CALL, now, 0))
Summary(resps) ==
  Accessed("summary", <<>>, resps, summary(page, resps, RATE_LIMIT_LAST_CALL, now, 0))
Images(resps) ==
  Accessed("images", <<>>, resps, images(page, resps, RATE_LIMIT_LAST_CALL, now, 0))
RelatedPages(resps) ==
  Accessed("related_pages", <<>>, resps,
           related_pages(page, resps, RATE_LIMIT_LAST_CALL, now, 0))
Sections(resps) ==
  Accessed("sections", <<>>, resps, sections(page, resps, RATE_LIMIT_LAST_CALL, now, 0))
Section(section_title, resps) ==
  Accessed("section", section_title, resps,
           section(page, section_title, resps, RATE_LIMIT_LAST_CALL, now, 0))

\* The caller is done with the value and keeps the page.
Release ==
  /\ ~Idle
  /\ call' = NoCall /\ ret' = NoRet /\ sent' = <<>>
  /\ UNCHANGED <<LANG, RATE_LIMIT, RATE_LIMIT_MIN_WAIT, RATE_LIMIT_LAST_CALL, now,
                 page, cursor, caches, epoch, gate>>

NextFacets ==
  \/ \E l \in Languages : SetLang(l)
  \/ Idle /\ \E x \in SimpleJsonResponses, y \in RevisionResponses : Content(<<x, y>>)
  \/ Idle /\ \E x \in SummaryResponses : Summary(<<x>>)
  \/ Idle /\ \E x \in SimpleJsonResponses : Images(<<x>>)
  \/ Idle /\ \E x \in RelatedResponses : RelatedPages(<<x>>)
  \/ Idle /\ \E x \in SimpleJsonResponses : Sections(<<x>>)
  \/ Release

SpecFacets == InitFacets /\ [][NextFacets]_vars

\* The names section() is asked for: "A", "B" and "C".
SectionNames == { <<65>>, <<66>>, <<67>> }

NextSection ==
  \/ Idle /\ \E x \in SimpleJsonResponses : Sections(<<x>>)
  \/ Idle /\ \E n \in SectionNames, x \in SimpleJsonResponses, y \in SimpleJsonResponses :
               Section(n, <<x, y>>)
  \/ Release

SpecSection == InitFacets /\ [][NextSection]_vars

-----------------------------------------------------------------------------
(* Claims about sections and facets *)

TitlesOf(secs) == [i \in DOMAIN secs |-> secs[i].title]
\* The section list the call to section() worked with: the stored list when
\* the page had a non-empty one, else the list of the first response.
Listed ==
  IF ~Falsy(call.before._sections) THEN call.before._sections.v
  ELSE TitlesOf(call.resps[1].json.sections)
\* The sections the page's own request was answered with.
Served == call.resps[call.used].json.sections
SectionReturned == call.op = "section" /\ ~ret.raised
IsListed == \E i \in DOMAIN Listed : Listed[i] = call.args
\* The server describes the same page in both of its answers.
SameAnswer ==
  /\ call.used > 0
  /\ TitlesOf(Served) = Listed
  /\ call.used = 2 => call.resps[1] = call.resps[2]
TextOfNamed ==
  LET Named(sec) == sec.title = call.args IN Join(Paragraphs(SelectSeq(Served, Named)))

\* C8: for a page whose section list has a section named T, section(T)
\* returns the paragraph text of that section and of no other section (the
\* empty text when it has no paragraph); when no section is named T it
\* returns the 'absent' marker.
C8_SectionText ==
  (SectionReturned /\ IsListed /\ SameAnswer) => ret.got = Some(TextOfNamed)

\* C8, the part that holds: when no section is named T the result is the
\* 'absent' marker, and no request is made for the text.
C8_AbsentIsNone ==
  (SectionReturned /\ ~IsListed) => (ret.got = Unset /\ Len(sent) <= 1)
C8_AbsentWitness ==
  SectionReturned /\ ~IsListed /\ Len(Listed) > 0 /\ ret.got = Unset

FacetOps == {"content", "summary", "images", "related_pages", "sections"}
AttrOf(p, op) ==
  CASE op = "content" -> p._content
    [] op = "summary" -> p._summary
    [] op = "images" -> p._images
    [] op = "related_pages" -> p._related_pages
    [] OTHER -> p._sections
\* The facet was read successfully before: its attribute is stored (content
\* stores its text before the revision request, which must have succeeded too).
ReadBefore(p, op) ==
  AttrOf(p, op).set /\ (op = "content" => p._revision_id # NoId)

\* C9: after a facet has been read successfully, reading it again returns
\* the same value without issuing any request, including when the value is
\* empty.
C9_FacetFetchedOnce ==
  (call.op \in FacetOps /\ ReadBefore(call.before, call.op))
    => (sent = <<>> /\ ~ret.raised /\ ret.got = AttrOf(call.before, call.op))

\* C9, the part that holds: a facet whose stored value is not empty is
\* returned without any request.
C9_NonEmptyFetchedOnce ==
  (call.op \in FacetOps /\ ~Falsy(AttrOf(call.before, call.op)))
    => (sent = <<>> /\ ~ret.raised /\ ret.got = AttrOf(call.before, call.op))

-----------------------------------------------------------------------------
(* WikiaPage.__continued_query (wikia.py:312-341)                          *)

\* A JSON object read both by key and in the order of its entries.
Entry(key, value) == [key |-> key, value |-> value]
HasKey(d, key) == \E i \in DOMAIN d : d[i].key = key
Get(d, key) == d[CHOOSE i \in DOMAIN d : d[i].key = key].value
Values(d) == [i \in DOMAIN d |-> d[i].value]

\* wikia.py:343-348
title_query_param(self) ==
  IF self.title # NoTitle THEN [titles |-> self.title] ELSE [pageids |-> self.pageid]

NoOut == [kind |-> "none"]
\* The generator object the call returns; none of its body has run.
NewCursor(query_params, script, last, t) ==
  [state |-> "created", base |-> query_params, query_params |-> query_params,
   last_continue |-> <<>>, request |-> <<>>, batch |-> <<>>,
   script |-> script, sent |-> <<>>, yielded |-> <<>>, out |-> NoOut,
   last |-> last, t |-> t]
Raised(c, exc) == [c EXCEPT !.state = "finished", !.out = [kind |-> "raise", exc |-> exc]]
Stopped(c) == [c EXCEPT !.state = "finished", !.out = [kind |-> "stop"]]
Yielded(c) ==
  [c EXCEPT !.state = "suspended", !.batch = Tail(@),
            !.yielded = Append(@, Head(c.batch)),
            !.out = [kind |-> "yield", datum |-> Head(c.batch)]]

RECURSIVE Iterate(_, _, _)
RECURSIVE Drain(_, _, _)
\* wikia.py:321-335, from the top of `while True` to the first datum.
Iterate(self, c, lat) ==
  LET params == Update(c.query_params, c.last_continue)
      r == _wiki_request(params, c.script[Len(c.sent) + 1], c.last, c.t, lat)
      c1 == [c EXCEPT !.sent = @ \o r.dispatched, !.last = r.last, !.t = r.t]
      pages == r.json.query.pages
      generator == "generator" \in DOMAIN c.query_params
      \* query_params.get('prop', None)
      prop == IF "prop" \in DOMAIN c.query_params THEN c.query_params.prop ELSE "None"
      \* pages[self.pageid]: the key is the number
      mine == Get(pages, IntKey(self.pageid))
  IN IF r.exc # NoExc THEN Raised(c1, r.exc)
     ELSE IF "query" \notin DOMAIN r.json THEN Stopped(c1)
     ELSE IF generator
     THEN Drain(self, [c1 EXCEPT !.request = r.json, !.batch = Values(pages)], lat)
     ELSE IF ~HasKey(pages, IntKey(self.pageid))
     THEN Raised(c1, [type |-> "KeyError", key |-> IntKey(self.pageid)])
     ELSE IF prop \notin DOMAIN mine
     THEN Raised(c1, [type |-> "KeyError", key |-> prop])
     ELSE Drain(self, [c1 EXCEPT !.request = r.json, !.batch = mine[prop]], lat)

\* wikia.py:329-341, from inside the `for` to the next datum.
Drain(self, c, lat) ==
  IF Len(c.batch) > 0 THEN Yielded(c)
  ELSE IF "continue" \notin DOMAIN c.request THEN Stopped(c)
  ELSE Iterate(self, [c EXCEPT !.last_continue = c.request.continue], lat)

\* next() on the generator: wikia.py:312-341 up to the next yield.
continued_query(self, c, lat) ==
  IF c.state = "created"
  THEN Iterate(self, [c EXCEPT !.query_params = Update(@, title_query_param(self))], lat)
  ELSE Drain(self, c, lat)

\* The longest sequence of pages the server answers a query with.
MaxPages == 3

PagesOne == << Entry(StrKey(7), [links |-> <<"a">>]) >>
PagesTwo ==
  << Entry(StrKey(9), [links |-> <<"b">>]), Entry(StrKey(7), [links |-> <<"c", "d">>]) >>
Containers == { [query |-> [pages |-> b]] : b \in { <<>>, PagesOne, PagesTwo } } \cup { <<>> }
Tokens == { [plcontinue |-> k] : k \in {1, 2} }
Interior == { Json(With(d, "continue", k)) : d \in Containers, k \in Tokens }
Final == { Json(d) : d \in Containers } \cup {Garbled}
Scripts ==
  UNION { { i \o <<f>> : i \in [1..(n - 1) -> Interior], f \in Final } : n \in 1..MaxPages }

\* The base parameters a caller hands in: generator mode, or a prop.
BaseParams(self) ==
  LET url == [action |-> "Articles/Details?/", sub_wikia |-> self.sub_wikia, lang |-> LANG]
  IN { With(url, "generator", "links"), With(url, "prop", "links") }

ContinuedQuery(query_params, script) ==
  /\ cursor = NoCursor
  /\ cursor' = NewCursor(query_params, script, RATE_LIMIT_LAST_CALL, now)
  /\ UNCHANGED <<LANG, RATE_LIMIT, RATE_LIMIT_MIN_WAIT, RATE_LIMIT_LAST_CALL, now,
                 call, ret, sent, page, caches, epoch, gate>>

NextDatum ==
  /\ cursor # NoCursor
  /\ cursor.state # "finished"
  /\ cursor' = continued_query(page, cursor, 0)
  /\ sent' = cursor'.sent
  /\ RATE_LIMIT_LAST_CALL' = cursor'.last
  /\ now' = cursor'.t
  /\ UNCHANGED <<LANG, RATE_LIMIT, RATE_LIMIT_MIN_WAIT, call, ret, page, caches, epoch, gate>>

\* The caller drops the generator, drained or not.
Abandon ==
  /\ cursor # NoCursor
  /\ cursor' = NoCursor
  /\ sent' = <<>>
  /\ UNCHANGED <<LANG, RATE_LIMIT, RATE_LIMIT_MIN_WAIT, RATE_LIMIT_LAST_CALL, now,
                 call, ret, page, caches, epoch, gate>>

NextCont ==
  \/ \E q \in BaseParams(page), s \in Scripts : ContinuedQuery(q, s)
  \/ NextDatum
  \/ Abandon

SpecCont == InitFacets /\ [][NextCont]_vars

-----------------------------------------------------------------------------
(* search (wikia.py:80-107), summary (134-166), and the cache around them  *)

Result(exc, value, reqs, used, last, t) ==
  [exc |-> exc, value |-> value, sent |-> reqs, used |-> used, last |-> last, t |-> t]

\* wikia.py:80-107
search(query, sub_wikia, results, resps, last, t, lat) ==
  LET search_params == [action |-> "Search/List?/", sub_wikia |-> sub_wikia, lang |-> LANG,
                        limit |-> results, query |-> query]
      r == _wiki_request(search_params, resps[1], last, t, lat)
      items == r.json.items
  IN IF r.exc # NoExc THEN Result(r.exc, <<>>, r.dispatched, 1, r.last, r.t)
     ELSE IF "items" \notin DOMAIN r.json
     THEN Result([type |-> "WikiaError", message |-> "Could not locate page",
                  query |-> query, sub_wikia |-> sub_wikia], <<>>, r.dispatched, 1, r.last, r.t)
     ELSE IF \E i \in DOMAIN items : "title" \notin DOMAIN items[i]
     THEN Result([type |-> "KeyError", key |-> "title"], <<>>, r.dispatched, 1, r.last, r.t)
     ELSE Result(NoExc, [i \in DOMAIN items |-> items[i].title], r.dispatched, 1, r.last, r.t)

\* wikia.py:150-166, with the page that page() gave
summaryOf(page_info, sub_wikia, chars, resps, lat) ==
  LET rest == SubSeq(resps, page_info.used + 1, Len(resps))
      pageid == page_info.self.pageid
      query_params == [action |-> "Articles/Details?/", sub_wikia |-> sub_wikia,
                       titles |-> page_info.self.title, ids |-> pageid,
                       abstract |-> chars, lang |-> LANG]
      r == _wiki_request(query_params, rest[1], page_info.last, page_info.t, lat)
      reqs == page_info.sent \o r.dispatched
      used == page_info.used + 1
  IN IF page_info.exc # NoExc
     THEN Result(page_info.exc, <<>>, page_info.sent, page_info.used, page_info.last, page_info.t)
     ELSE IF r.exc # NoExc THEN Result(r.exc, <<>>, reqs, used, r.last, r.t)
     ELSE IF "items" \notin DOMAIN r.json
     THEN Result([type |-> "KeyError", key |-> "items"], <<>>, reqs, used, r.last, r.t)
     ELSE IF StrKey(pageid) \notin DOMAIN r.json.items
     THEN Result([type |-> "KeyError", key |-> StrKey(pageid)], <<>>, reqs, used, r.last, r.t)
     ELSE Result(NoExc, r.json.items[StrKey(pageid)].abstract, reqs, used, r.last, r.t)

\* wikia.py:134-166; page() is called once
summaryFn(title, sub_wikia, chars, redirect, resps, last, t, lat) ==
  CHOOSE v \in { summaryOf(page_info, sub_wikia, chars, resps, lat) :
                   page_info \in { pageFn(sub_wikia, title, NoId, redirect, FALSE,
                                          resps, last, t, lat) } } : TRUE

\* wikia.py:516-537; the listing maps each language code to its name
languages(resps, last, t, lat) ==
  LET r == _wiki_request([meta |-> "siteinfo", siprop |-> "languages"], resps[1], last, t, lat)
      listed == r.json.query.languages
  IN IF r.exc # NoExc THEN Result(r.exc, <<>>, r.dispatched, 1, r.last, r.t)
     ELSE IF "query" \notin DOMAIN r.json
     THEN Result([type |-> "KeyError", key |-> "query"], <<>>, r.dispatched, 1, r.last, r.t)
     ELSE IF "languages" \notin DOMAIN r.json.query
     THEN Result([type |-> "KeyError", key |-> "languages"], <<>>, r.dispatched, 1, r.last, r.t)
     ELSE Result(NoExc, { <<listed[i].code, listed[i].star>> : i \in DOMAIN listed },
                 r.dispatched, 1, r.last, r.t)

\* The cache decorator of the util module: the entry stored for a signature.
Stored(fn, sig) == { e \in caches[fn] : e.sig = sig }
IsStored(fn, sig) == Stored(fn, sig) # {}
StoredValue(fn, sig) == (CHOOSE e \in Stored(fn, sig) : TRUE).value

\* A call of the wrapped function fn; c is what its body computes when run.
Cached(fn, sig, resps, c) ==
  LET hit == IsStored(fn, sig)
      value == IF hit THEN StoredValue(fn, sig) ELSE c.value
      returned == hit \/ c.exc = NoExc
      entry == [sig |-> sig, value |-> value]
  IN /\ call' = [op |-> "cached", fn |-> fn, args |-> sig, resps |-> resps,
                 computations |-> IF hit THEN 0 ELSE 1,
                 seen |-> \E e \in epoch[fn] : e.sig = sig,
                 earlier |-> { e.value : e \in { d \in epoch[fn] : d.sig = sig } },
                 stale |-> sig \in epoch.past[fn]]
     /\ ret' = [raised |-> ~returned, exc |-> IF hit THEN NoExc ELSE c.exc,
                value |-> "cached", got |-> value]
     /\ sent' = IF hit THEN <<>> ELSE c.sent
     /\ caches' = IF ~hit /\ returned THEN [caches EXCEPT ![fn] = @ \cup {entry}] ELSE caches
     /\ epoch' = IF returned THEN [epoch EXCEPT ![fn] = @ \cup {entry}] ELSE epoch
     /\ RATE_LIMIT_LAST_CALL' = IF hit THEN RATE_LIMIT_LAST_CALL ELSE c.last
     /\ now' = IF hit THEN now ELSE c.t
     /\ UNCHANGED <<LANG, RATE_LIMIT, RATE_LIMIT_MIN_WAIT, page, cursor, gate>>

\* search's default results and summary's default chars.
DefaultResults == 10
DefaultChars == 500

Search(query, sub_wikia, results, resps) ==
  \E c \in { search(query, sub_wikia, results, resps, RATE_LIMIT_LAST_CALL, now, 0) } :
    Cached("search", [query |-> query, sub_wikia |-> sub_wikia, results |-> results], resps, c)
SummaryCall(title, sub_wikia, chars, redirect, resps) ==
  \E c \in { summaryFn(title, sub_wikia, chars, redirect, resps,
                         RATE_LIMIT_LAST_CALL, now, 0) } :
    Cached("summary",
           [title |-> title, sub_wikia |-> sub_wikia, chars |-> chars, redirect |-> redirect],
           resps, c)

LanguagesCall(resps) ==
  \E c \in { languages(resps, RATE_LIMIT_LAST_CALL, now, 0) } :
    Cached("languages", [none |-> TRUE], resps, c)

\* A siteinfo listing, one without the listing, and no answer.
LanguagesResponses ==
  { Json([query |-> [languages |-> <<[code |-> "de", star |-> "Deutsch"]>>]]),
    Json([batchcomplete |-> ""]), Garbled }
SearchResponses ==
  { Json([items |-> l]) : l \in { <<>>, <<[title |-> <<65, 98>>]>>,
                                   <<[title |-> <<99, 100>>], [id |-> 7]>> } }
  \cup { Json([batchcomplete |-> ""]), Garbled }
\* The details of an article and of a missing one; no answer.
SummaryDetails ==
  { Json([items |-> <<i>>]) :
      i \in [id : ItemIds, title : Titles] \cup [id : ItemIds, title : Titles, missing : {""}] }
  \cup {Garbled}
AbstractResponses ==
  { Json([items |-> [k \in {StrKey(i)} |-> [abstract |-> a]]]) :
      i \in ItemIds, a \in { <<>>, <<115>> } }
  \cup {Garbled}
SummaryTitles == { <<65, 98>> }

NextCache ==
  \/ \E l \in Languages : SetLang(l)
  \/ Idle /\ \E q \in Titles, s \in SubWikias, x \in SearchResponses :
               Search(q, s, DefaultResults, <<x>>)
  \/ Idle /\ \E n \in SummaryTitles, s \in SubWikias, r \in BOOLEAN,
                x \in SummaryDetails, a \in AbstractResponses :
               SummaryCall(n, s, DefaultChars, r, <<x, a>>)
  \/ Idle /\ \E x \in LanguagesResponses : LanguagesCall(<<x>>)
  \/ Release

SpecCache == Init /\ [][NextCache]_vars

-----------------------------------------------------------------------------
(* Claims about the continued query and the cache *)

Drained == cursor # NoCursor /\ cursor.state = "finished"
\* The script is N pages, each but the last carrying a continuation token;
\* outside generator mode the results of a page list the targeted page.
IsPaged(self, c) ==
  \A k \in DOMAIN c.script :
    /\ c.script[k].decodes
    /\ (~("generator" \in DOMAIN c.base) /\ "query" \in DOMAIN c.script[k].json)
         => HasKey(c.script[k].json.query.pages, StrKey(self.pageid))
GeneratorMode(c) == "generator" \in DOMAIN c.base
\* The items page k holds for this query: every entry of the results
\* container in generator mode, else the prop list of the targeted page.
ItemsOf(self, c, k) ==
  LET body == c.script[k].json
      pages == body.query.pages
      key == StrKey(self.pageid)
  IN IF "query" \notin DOMAIN body THEN <<>>
     ELSE IF GeneratorMode(c) THEN Values(pages)
     ELSE IF "prop" \in DOMAIN c.base /\ HasKey(pages, key) THEN Get(pages, key)[c.base.prop]
     ELSE <<>>
RECURSIVE ItemsUpTo(_, _, _)
ItemsUpTo(self, c, k) ==
  IF k = 0 THEN <<>> ELSE ItemsUpTo(self, c, k - 1) \o ItemsOf(self, c, k)
\* Request k carries the base parameters and the token of response k-1.
ExpectedParams(self, c, k) ==
  LET keyed == Update(c.base, title_query_param(self))
      merged == IF k = 1 THEN keyed ELSE Update(keyed, c.script[k - 1].json.continue)
  IN With(merged, "format", "json")
DrainedAll ==
  /\ cursor.out.kind = "stop"
  /\ cursor.yielded = ItemsUpTo(page, cursor, Len(cursor.script))
  /\ Len(cursor.sent) = Len(cursor.script)
  /\ \A k \in DOMAIN cursor.sent : cursor.sent[k].params = ExpectedParams(page, cursor, k)

\* C5: for every response sequence of N pages in which pages 1..N-1 carry a
\* continuation token and page N omits it, draining yields the items of all N
\* pages in arrival order and issues exactly N requests, request k+1 carrying
\* the base parameters merged with the token of response k, and none after
\* page N.
C5_DrainYieldsAll == (Drained /\ IsPaged(page, cursor)) => DrainedAll

\* C5, the part that holds: in generator mode, when every page carries the
\* results container.
EveryPageHasResults(script) == \A k \in DOMAIN script : "query" \in DOMAIN script[k].json
C5_GeneratorDrain ==
  (Drained /\ IsPaged(page, cursor) /\ GeneratorMode(cursor)
     /\ EveryPageHasResults(cursor.script)) => DrainedAll
\* C5: in non-generator mode no drain comes to its end, whatever the pages.
C5_PropModeNeverDrains ==
  (Drained /\ ~GeneratorMode(cursor) /\ cursor.out.kind = "stop")
    => ~EveryPageHasResults(cursor.script)

IsCachedCall == call.op = "cached" /\ call.fn \in {"search", "summary"}
\* C6: for search and summary, two calls with an identical signature and no
\* set_lang between them cause one computation and the second returns the
\* stored result; the first call with a signature after a set_lang is
\* computed afresh, exactly once.
C6_CachedOnce ==
  IsCachedCall =>
    /\ call.seen => /\ call.computations = 0
                    /\ sent = <<>>
                    /\ ~ret.raised
                    /\ call.earlier = {ret.got}
    /\ ~call.seen => call.computations = 1
C6_Witness ==
  /\ IsCachedCall /\ call.fn = "summary"
  /\ call.seen /\ call.stale /\ call.computations = 0 /\ call.earlier = {ret.got}

\* A call of any of the three wrapped functions.
IsWrappedCall == call.op = "cached"
\* A stored result was handed back.
ServedFromCache == IsWrappedCall /\ call.computations = 0

C14_NeverStored == caches.languages = {}

-----------------------------------------------------------------------------
(* Claims about _wiki_request and the rate-limit state *)

IsRequest == call.op = "_wiki_request"
\* The call was dispatched and answered with an error envelope.
GotEnvelope ==
  /\ IsRequest /\ sent # <<>>
  /\ call.resps[1].decodes /\ "exception" \in DOMAIN call.resps[1].json
Upstream == call.resps[1].json.exception

\* C11: a decoded response that holds an error envelope: code 408 reaches
\* the caller as HTTPTimeoutError, any other code as WikiaError carrying the
\* upstream message, code and details; no JSON value is returned.
C11_EnvelopeErrors ==
  GotEnvelope =>
    /\ ret.raised /\ ret.json = NoJson
    /\ Upstream.code = 408 => ret.exc.type = "HTTPTimeoutError"
    /\ Upstream.code # 408 =>
         ret.exc = [type |-> "WikiaError", code |-> Upstream.code,
                    message |-> Upstream.message, details |-> Upstream.details]

\* C11, the part that holds: a code other than 408.
C11_OtherCodesAreWikiaError ==
  (GotEnvelope /\ Upstream.code # 408) =>
    /\ ret.raised /\ ret.json = NoJson
    /\ ret.exc = [type |-> "WikiaError", code |-> Upstream.code,
                  message |-> Upstream.message, details |-> Upstream.details]

\* C18: every invocation of _wiki_request dispatches exactly one network
\* call, whether it waits first or not and whether it returns or raises, and
\* under rate limiting the last-call timestamp is the time right after the
\* dispatch, also when the response is then rejected.
C18_ExactlyOneDispatch ==
  [][\A p \in RequestParams, x \in RequestResponses, l \in Latencies :
       Request(p, x, l) =>
         /\ Len(sent') = 1
         /\ RATE_LIMIT => RATE_LIMIT_LAST_CALL' = now']_vars

\* C18, the part that holds: an invocation whose parameters fill the URL
\* template.
C18_AddressedIsDispatchedOnce ==
  [][\A p \in RequestParams, x \in RequestResponses, l \in Latencies :
       (Request(p, x, l) /\ MissingUrlKey(p) = "") =>
         /\ Len(sent') = 1
         /\ RATE_LIMIT => RATE_LIMIT_LAST_CALL' = now']_vars

\* C20: without rate limiting neither a minimum wait nor a last-call
\* timestamp is set; a last-call timestamp is set only with a minimum wait;
\* the first request dispatched after a set_rate_limiting call did not wait.
C20_RateLimitState ==
  /\ ~RATE_LIMIT => (RATE_LIMIT_MIN_WAIT = NoWait /\ RATE_LIMIT_LAST_CALL = NoTime)
  /\ RATE_LIMIT_LAST_CALL # NoTime => RATE_LIMIT_MIN_WAIT # NoWait
  /\ (gate.at # NoTime /\ gate.prev = NoTime) => gate.slept = 0
\* The first request after rate limiting was switched on again, later on.
C20_Witness ==
  /\ gate.prev = NoTime /\ gate.at > 0 /\ gate.slept = 0
  /\ RATE_LIMIT /\ RATE_LIMIT_LAST_CALL # NoTime

-----------------------------------------------------------------------------
(* Claims about rejected and oddly shaped responses *)

\* The error the gateway's message at lines 579-584 describes.
MalformedResponse(req) ==
  [type |-> "WikiaError", message |-> "returned data in a format other than JSON",
   url |-> req.url, params |-> req.params]
\* The first request of the call was dispatched and its body is not JSON.
GotGarbled ==
  /\ call.op \in {"_wiki_request", "page", "WikiaPage"}
  /\ Len(sent) >= 1
  /\ ~call.resps[1].decodes

\* C12: a body that is not JSON reaches the caller as the malformed-response
\* WikiaError naming the URL and the parameters, from a direct _wiki_request
\* as well as during page resolution, never as another kind of error such as
\* "Could not locate page".
C12_MalformedIsDistinct ==
  GotGarbled => (ret.raised /\ ret.exc = MalformedResponse(sent[1]))

\* The details lookup was dispatched and answered with JSON that is no error
\* envelope.
GotDetails ==
  /\ IsResolution /\ Len(sent) >= 1
  /\ call.resps[1].decodes
  /\ "exception" \notin DOMAIN call.resps[1].json
Details == call.resps[1].json
OddShape ==
  \/ "items" \notin DOMAIN Details
  \/ Len(Details.items) = 0
  \/ "id" \notin DOMAIN Details.items[1]
  \/ "title" \notin DOMAIN Details.items[1]

\* C13: a details response without 'items', with empty 'items', or whose item
\* lacks 'id' or 'title' makes resolution fail with the typed page-not-found
\* or could-not-locate error, never with a raw KeyError or IndexError.
C13_OddShapeIsTypedError ==
  (GotDetails /\ OddShape) =>
    /\ ret.raised
    /\ ret.exc.type \in {"PageError", "WikiaError"}

\* C13, what the code does for a response without 'items' or with none.
C13_NoItemsIsRaw ==
  (GotDetails /\ ("items" \notin DOMAIN Details \/ Len(Details.items) = 0)) =>
    /\ ret.raised
    /\ ret.exc.type \in {"KeyError", "IndexError"}

-----------------------------------------------------------------------------
(* SpecPage: a caller resolving a page, with or without preloading, then   *)
(* reading its facets and changing the language                            *)

\* page(..., preload=True) for the article "Ab", by title and by id.
PreloadArgs ==
  [sub_wikia : SubWikias, title : {<<65, 98>>, NoTitle}, pageid : {7},
   redirect : {TRUE}, preload : {TRUE}]
\* Articles/AsSimpleJson with no section and with one; no answer.
PageJsonResponses ==
  { Json([sections |-> ss]) : ss \in {<<>>} \cup { <<f>> : f \in SectionFixtures } }
  \cup {Garbled}
\* The responses to the requests of a preloading resolution, in order: the
\* details of a plain article, then content's two, summary's and images'.
PreloadExchanges ==
  { <<d, x, y, z, w>> :
      d \in { Json([items |-> << [id |-> 7, title |-> t] >>]) : t \in Titles },
      x \in PageJsonResponses, y \in RevisionResponses \cup {Garbled},
      z \in SummaryResponses, w \in PageJsonResponses }

Held == page # NoPage

NextPage ==
  \/ \E l \in Languages : SetLang(l)
  \/ Idle /\ ~Held /\ \E a \in PageArgs, x \in Exchanges : Page(a, x)
  \/ Idle /\ ~Held /\ \E a \in PageArgs, x \in Exchanges : NewWikiaPage(a, x)
  \/ Idle /\ ~Held /\ \E a \in PreloadArgs, x \in PreloadExchanges : Page(a, x)
  \/ Idle /\ ~Held /\ \E a \in PreloadArgs, x \in PreloadExchanges : NewWikiaPage(a, x)
  \/ Idle /\ Held /\ \E x \in PageJsonResponses, y \in RevisionResponses : Content(<<x, y>>)
  \/ Idle /\ Held /\ \E x \in SummaryResponses : Summary(<<x>>)
  \/ Idle /\ Held /\ \E x \in PageJsonResponses : Images(<<x>>)
  \/ Idle /\ Held /\ \E x \in RelatedResponses : RelatedPages(<<x>>)
  \/ Idle /\ Held /\ \E x \in PageJsonResponses : Sections(<<x>>)
  \/ Release
  \/ Forget

SpecPage == Init /\ [][NextPage]_vars

-----------------------------------------------------------------------------
(* Claims about the resolved page *)

Identity(p) == <<p.pageid, p.title, p.url>>
\* The details response carries a plain article: no 'missing', 'redirects'
\* or 'pageprops'.
GotArticle ==
  /\ GotItem
  /\ {"id", "title"} \subseteq DOMAIN Item
  /\ DOMAIN Item \cap {"missing", "redirects", "pageprops"} = {}

\* C15: a page handed back by page() or the constructor has pageid, title
\* and url set, the title in lower case and the url made of the language of
\* the resolution, the sub-wiki and that title; a resolution that does not
\* come to a plain article raises and hands back no page; no later step
\* (facet access, set_lang) changes pageid, title or url.
Whole ==
  /\ Held => /\ page.pageid # NoId /\ page.title # NoTitle /\ page.url # NoUrl
             /\ page.title = Lower(page.title)
             /\ page.url = StandardUrl(page.url.lang, page.sub_wikia, page.title)
  /\ IsResolution =>
       /\ Held <=> ~ret.raised
       /\ Held => /\ GotArticle /\ ~call.args.preload
                  /\ page.pageid = Item.id
                  /\ page.title = Lower(Item.title)
                  /\ page.url = StandardUrl(LANG, call.args.sub_wikia, Lower(Item.title))
C15_ResolvedPageIsWhole ==
  [][/\ Whole'
     /\ (Held /\ Held') => Identity(page') = Identity(page)]_vars
\* A facet was loaded on a page that was resolved by a title with a capital
\* letter, after the language was changed.
C15_Witness ==
  /\ call.op = "content" /\ ~ret.raised /\ Held /\ page._content.set
  /\ LANG # page.url.lang
  /\ page.original_title # NoTitle /\ page.title # page.original_title

-----------------------------------------------------------------------------
(* SpecConc: several threads inside _wiki_request at once. The function    *)
(* takes no lock: a thread reads the gate (lines 563-570), later sends     *)
(* (572), later writes the timestamp (574-575), and the others run in      *)
(* between. Minimum wait and clock move in whole seconds, so that the      *)
(* truncation of line 570 loses nothing.                                   *)

Threads == {1, 2}
MaxConcTime == 3000
\* Where each thread is: out of the function, past the gate (asleep until
\* wake), or past requests.get.
NoThreads == [op |-> "threads", pc |-> [i \in Threads |-> "out"], wake |-> [i \in Threads |-> 0]]

InitConc ==
  /\ LANG = <<>>
  /\ RATE_LIMIT = FALSE
  /\ RATE_LIMIT_MIN_WAIT = NoWait
  /\ RATE_LIMIT_LAST_CALL = NoTime
  /\ now = 0
  /\ call = NoThreads /\ ret = NoRet /\ sent = <<>> /\ page = NoPage
  /\ cursor = NoCursor
  /\ caches = EmptyCaches
  /\ epoch = NoCalls
  /\ gate = NoGate

\* set_rate_limiting(rate_limit, one second), called while no request runs.
ConcSetRateLimiting(rate_limit) ==
  /\ \A i \in Threads : call.pc[i] = "out"
  /\ set_rate_limiting(rate_limit, MsPerSecond)
  /\ gate' = NoGate
  /\ UNCHANGED <<LANG, now, call, ret, sent, page, cursor, caches, epoch>>

\* Lines 563-570: the thread reads RATE_LIMIT_LAST_CALL and the clock and
\* decides how long to sleep.
EnterGate(i) ==
  /\ call.pc[i] = "out"
  /\ call' = [call EXCEPT !.pc[i] = "gate", !.wake[i] = now + GateSleep(RATE_LIMIT_LAST_CALL, now)]
  /\ UNCHANGED <<LANG, RATE_LIMIT, RATE_LIMIT_MIN_WAIT, RATE_LIMIT_LAST_CALL, now,
                 ret, sent, page, cursor, caches, epoch, gate>>

\* Line 572: the sleep is over and the request goes out.
Dispatch(i) ==
  /\ call.pc[i] = "gate" /\ now >= call.wake[i]
  /\ call' = [call EXCEPT !.pc[i] = "sent"]
  /\ gate' = [at |-> now, prev |-> gate.at, slept |-> 0]
  /\ UNCHANGED <<LANG, RATE_LIMIT, RATE_LIMIT_MIN_WAIT, RATE_LIMIT_LAST_CALL, now,
                 ret, sent, page, cursor, caches, epoch>>

\* Lines 574-575, and the thread leaves the function.
Stamp(i) ==
  /\ call.pc[i] = "sent"
  /\ call' = [call EXCEPT !.pc[i] = "out"]
  /\ RATE_LIMIT_LAST_CALL' = IF RATE_LIMIT THEN now ELSE RATE_LIMIT_LAST_CALL
  /\ UNCHANGED <<LANG, RATE_LIMIT, RATE_LIMIT_MIN_WAIT, now,
                 ret, sent, page, cursor, caches, epoch, gate>>

\* A second passes.
ConcTick ==
  /\ now + MsPerSecond <= MaxConcTime
  /\ now' = now + MsPerSecond
  /\ UNCHANGED <<LANG, RATE_LIMIT, RATE_LIMIT_MIN_WAIT, RATE_LIMIT_LAST_CALL,
                 call, ret, sent, page, cursor, caches, epoch, gate>>

NextThreads(callers) ==
  \/ \E b \in BOOLEAN : ConcSetRateLimiting(b)
  \/ \E i \in callers : EnterGate(i)
  \/ \E i \in callers : Dispatch(i)
  \/ \E i \in callers : Stamp(i)
  \/ ConcTick
NextConc == NextThreads(Threads)
NextOneCaller == NextThreads({1})

SpecConc == InitConc /\ [][NextConc]_vars
SpecOneCaller == InitConc /\ [][NextOneCaller]_vars

\* C16: with rate limiting on and several callers inside _wiki_request, any
\* two calls dispatched one after the other are at least the minimum wait
\* apart.
C16_ConcurrentCallsAreSpaced ==
  (RATE_LIMIT /\ gate.prev # NoTime) => gate.at - gate.prev >= RATE_LIMIT_MIN_WAIT

-----------------------------------------------------------------------------
(* Claims about redirects and termination *)

IsDetailsLookup(req) == req.params.action = "Articles/Details?/"
DetailsLookups == Len(SelectSeq(sent, IsDetailsLookup))
\* The redirect of the details response, followed.
Followed ==
  /\ GotItem /\ "redirects" \in DOMAIN Item /\ Len(Item.redirects) > 0
  /\ "id" \in DOMAIN Item /\ "missing" \notin DOMAIN Item
  /\ (call.args.redirect \/ call.args.title = NoTitle)
Hop == Item.redirects[1]
\* The target's details redirect back to where the first redirect came from.
Cyclic ==
  /\ call.resps[2].decodes /\ "items" \in DOMAIN call.resps[2].json
  /\ Len(call.resps[2].json.items) > 0
  /\ "redirects" \in DOMAIN call.resps[2].json.items[1]
  /\ call.resps[2].json.items[1].redirects[1] = [from |-> Hop.to, to |-> Hop.from]

-----------------------------------------------------------------------------
(* Claims about a page and later language changes *)

\* A facet access that went to the network.
Fetched == call.op \in FacetOps /\ sent # <<>>

\* C19: after set_lang a page resolved before it keeps pageid, title, url
\* and the facets already loaded, and the requests of a facet loaded later
\* are issued for the language the page was resolved under (the one in its
\* url).
C19_PageKeepsItsLanguage ==
  Fetched =>
    /\ Identity(page) = Identity(call.before)
    /\ \A i \in DOMAIN sent : sent[i].url.lang = page.url.lang

\* C19, the part that holds: set_lang leaves the page object as it is.
C19_SetLangLeavesPage ==
  [][(\E l \in Languages : SetLang(l)) => page' = page]_vars

=============================================================================
